---- MODULE Spec2Model ----
(***************************************************************************)
(* A model of the data-analyzer package: the DataAnalyzer query engine     *)
(* (analyzers/DataAnalyzer.ts), the DataSource load template               *)
(* (models/DataSource.ts) and its CSV / JSON / XML readers with their      *)
(* validators.                                                             *)
(*                                                                         *)
(* JavaScript arrays and objects are reference values, so the engine is    *)
(* modelled over two heaps: arr (array identity -> sequence of record      *)
(* identities) and recs (record identity -> object).  A copy ([...data])   *)
(* allocates a new array identity; an in-place sort rewrites an existing   *)
(* one; records are never copied by the engine.                            *)
(***************************************************************************)
EXTENDS Integers, Sequences, FiniteSets, TLC

\* ------------------------------------------------------------------ bounds
MaxLen == 2
NumRecs == 3
MaxCalls == 2
NumArr == 6
MaxItems == 2
MaxRows == 3
MaxSales == 3
MaxLoads == 2

\* --------------------------------------------------------- JavaScript values
Num(n) == [t |-> "number", n |-> n, d |-> 1]
NaN == [t |-> "number", nan |-> TRUE]
Str(s) == [t |-> "string", s |-> s]
Bool(b) == [t |-> "boolean", b |-> b]
Undefined == [t |-> "undefined"]
Null == [t |-> "null"]
Obj(o) == [t |-> "object", o |-> o]

IsNaN(v) == v.t = "number" /\ "nan" \in DOMAIN v
IsFinite(v) == v.t = "number" /\ ~IsNaN(v)

\* typeof: null reports "object"; arrays and objects report "object".
TypeOf(v) == IF v.t \in {"null", "array", "object"} THEN "object" ELSE v.t

Abs(i) == IF i < 0 THEN -i ELSE i
RECURSIVE Gcd(_, _)
Gcd(a, b) == IF b = 0 THEN a ELSE Gcd(b, a % b)
\* The number a / b (b > 0), in lowest terms.
Frac(a, b) ==
  LET g == Gcd(Abs(a), b) IN
  IF a = 0 THEN [t |-> "number", n |-> 0, d |-> 1]
  ELSE [t |-> "number", n |-> a \div g, d |-> b \div g]

\* Number(string) for the strings of the model: a decimal numeral gives its
\* value, the empty string gives 0, anything else NaN.
StringToNumber(s) ==
  CASE s = "" -> Num(0)
    [] s = "1" -> Num(1)
    [] s = "2" -> Num(2)
    [] s = "10" -> Num(10)
    [] s = "20" -> Num(20)
    [] OTHER -> NaN

\* ToNumber, the coercion of Number(v) and of relational operators.
ToNumber(v) ==
  CASE v.t = "number" -> v
    [] v.t = "string" -> StringToNumber(v.s)
    [] v.t = "boolean" -> IF v.b THEN Num(1) ELSE Num(0)
    [] v.t = "null" -> Num(0)
    [] OTHER -> NaN

\* a === b on primitives: same type and value, and NaN equals nothing.
StrictEq(a, b) == a = b /\ ~IsNaN(a)

\* sign of a - b for two finite numbers
NumCmp(a, b) == a.n * b.d - b.n * a.d
\* a <= b with both sides coerced to numbers; false when either is NaN.
LessEq(a, b) ==
  LET x == ToNumber(a)
      y == ToNumber(b)
  IN IsFinite(x) /\ IsFinite(y) /\ NumCmp(x, y) <= 0

\* A JavaScript object: its own properties in insertion order, <<key, value>>.
HasKey(o, k) == \E i \in 1..Len(o) : o[i][1] = k
Get(o, k) ==
  IF HasKey(o, k) THEN o[CHOOSE i \in 1..Len(o) : o[i][1] = k][2] ELSE Undefined
SetKey(o, k, v) ==
  IF HasKey(o, k)
  THEN [i \in 1..Len(o) |-> IF o[i][1] = k THEN <<k, v>> ELSE o[i]]
  ELSE Append(o, <<k, v>>)

\* Collation rank of the strings of the model (localeCompare).
StrRank(s) ==
  CASE s = "" -> 0
    [] s = "A" -> 1
    [] s = "B" -> 2
    [] s = "constructor" -> 3
    [] OTHER -> 4
localeCompare(a, b) == StrRank(a) - StrRank(b)

RECURSIVE SeqsUpTo(_, _)
SeqsUpTo(S, n) ==
  IF n = 0 THEN {<<>>}
  ELSE LET P == SeqsUpTo(S, n - 1) IN
       P \cup {Append(p, x) : p \in {q \in P : Len(q) = n - 1}, x \in S}

Reverse(s) == [i \in 1..Len(s) |-> s[Len(s) + 1 - i]]

SetMax(S) == CHOOSE x \in S : \A y \in S : y <= x
SetMin(S) == CHOOSE x \in S : \A y \in S : x <= y

\* How a call ends.
Ret(v) == [kind |-> "return", value |-> v]
Throw(e) == [kind |-> "throw", error |-> e]

TypeError == [name |-> "TypeError"]

\* ------------------------------------------------------------------- heaps
RecId == 1..NumRecs
ArrId == 1..NumArr
\* The array the caller hands to the DataAnalyzer constructor.
OrigId == 1

\* A fresh array identity: the least one no live reference uses.
Fresh(used) == SetMin(ArrId \ used)
\* Arrays no reference reaches are dropped from the heap.
Collect(h, live) == [i \in ArrId |-> IF i \in live THEN h[i] ELSE <<>>]

\* [...a]: a new array holding the same record references as array a.
spreadAlias(h, used, a) == [ref |-> a, heap |-> h]
spread(h, used, a) ==
  LET id == Fresh(used) IN [ref |-> id, heap |-> [h EXCEPT ![id] = h[a]]]

\* new DataAnalyzer(data): this.data = [...data]
constructorAlias(h, used, d) == spreadAlias(h, used, d)
constructor(h, used, d) == spread(h, used, d)

\* reset(newData): this.data = [...newData]
resetAlias(h, used, nd) == spreadAlias(h, used, nd)
reset(h, used, nd) == spread(h, used, nd)

\* getResults(): return [...this.data]
getResultsAlias(h, used, d) == spreadAlias(h, used, d)
getResults(h, used, d) == spread(h, used, d)

\* ------------------------------------------ engine operations on sequences
\* rs is the record heap, d the sequence of record identities in this.data.
Fields == {"category", "price"}

\* filter(predicate): the caller's predicates, by name.
Predicates == {"priceOver15", "none"}
Holds(p, o) ==
  CASE p = "priceOver15" -> ~LessEq(Get(o, "price"), Num(15))
                            /\ ~IsNaN(ToNumber(Get(o, "price")))
    [] OTHER -> FALSE
filterBackwards(rs, d, p) == SelectSeq(Reverse(d), LAMBDA r : Holds(p, rs[r]))
filter(rs, d, p) == SelectSeq(d, LAMBDA r : Holds(p, rs[r]))

filterBySkipFirst(rs, d, field, value) ==
  LET kept == SelectSeq(d, LAMBDA r : StrictEq(Get(rs[r], field), value))
  IN IF kept = <<>> THEN kept ELSE Tail(kept)
filterBy(rs, d, field, value) ==
  SelectSeq(d, LAMBDA r : StrictEq(Get(rs[r], field), value))

filterByRangeExclusive(rs, d, field, min, max) ==
  SelectSeq(d, LAMBDA r : ~LessEq(Get(rs[r], field), min)
                          /\ ~LessEq(max, Get(rs[r], field)))
filterByRange(rs, d, field, min, max) ==
  SelectSeq(d, LAMBDA r : LessEq(min, Get(rs[r], field))
                          /\ LessEq(Get(rs[r], field), max))

\* The comparator of sortBy(field, order), and the caller's comparators of
\* sort(compareFn): the sign of its result, a NaN result counting as 0.
Sign(i) == IF i < 0 THEN -1 ELSE IF i > 0 THEN 1 ELSE 0
Compare(c, a, b) ==
  LET aVal == Get(a, c.field)
      bVal == Get(b, c.field)
  IN CASE c.kind = "sortBy" /\ aVal.t = "number" /\ bVal.t = "number" ->
            IF IsNaN(aVal) \/ IsNaN(bVal) THEN 0
            ELSE IF c.order = "asc" THEN Sign(NumCmp(aVal, bVal))
                 ELSE Sign(NumCmp(bVal, aVal))
       [] c.kind = "sortBy" /\ aVal.t = "string" /\ bVal.t = "string" ->
            IF c.order = "asc" THEN Sign(localeCompare(aVal.s, bVal.s))
            ELSE Sign(-localeCompare(aVal.s, bVal.s))
       [] c.kind = "sortBy" -> 0
       \* (a, b) => b[field] - a[field]
       [] OTHER ->
            LET x == ToNumber(aVal)
                y == ToNumber(bVal)
            IN IF IsNaN(x) \/ IsNaN(y) THEN 0 ELSE Sign(NumCmp(y, x))

\* Array.prototype.sort as the runtime (V8) runs it on an array of fewer than
\* 64 elements: CountAndMakeRun finds the leading run (reversing it when it
\* is strictly descending), BinaryInsertionSort inserts every later element
\* into the sorted prefix.  With a consistent comparator this is the stable
\* sort; with an inconsistent one it is what the runtime leaves.
RECURSIVE RunLength(_, _, _, _, _)
RunLength(rs, c, s, isDescending, runLength) ==
  IF runLength = Len(s) THEN runLength
  ELSE LET order == Compare(c, rs[s[runLength + 1]], rs[s[runLength]]) IN
       IF (isDescending /\ order >= 0) \/ (~isDescending /\ order < 0)
       THEN runLength
       ELSE RunLength(rs, c, s, isDescending, runLength + 1)
CountAndMakeRun(rs, c, s) ==
  LET isDescending == Compare(c, rs[s[2]], rs[s[1]]) < 0
      runLength == RunLength(rs, c, s, isDescending, 2)
  IN [run |-> runLength,
      seq |-> IF isDescending
              THEN Reverse(SubSeq(s, 1, runLength)) \o SubSeq(s, runLength + 1, Len(s))
              ELSE s]
\* left and right count from 0, as in the runtime
RECURSIVE BinarySearch(_, _, _, _, _, _)
BinarySearch(rs, c, s, pivot, left, right) ==
  IF left >= right THEN left
  ELSE LET mid == left + ((right - left) \div 2) IN
       IF Compare(c, rs[pivot], rs[s[mid + 1]]) < 0
       THEN BinarySearch(rs, c, s, pivot, left, mid)
       ELSE BinarySearch(rs, c, s, pivot, mid + 1, right)
RECURSIVE BinaryInsertionSort(_, _, _, _)
BinaryInsertionSort(rs, c, s, start) ==
  IF start >= Len(s) THEN s
  ELSE LET pivot == s[start + 1]
           left == BinarySearch(rs, c, s, pivot, 0, start)
       IN BinaryInsertionSort(rs, c,
            SubSeq(s, 1, left) \o <<pivot>> \o SubSeq(s, left + 1, start)
              \o SubSeq(s, start + 2, Len(s)),
            start + 1)
sort(rs, d, c) ==
  IF Len(d) < 2 THEN d
  ELSE LET r == CountAndMakeRun(rs, c, d) IN BinaryInsertionSort(rs, c, r.seq, r.run)
sortByAscending(rs, d, field, order) ==
  sort(rs, d, [kind |-> "sortBy", field |-> field, order |-> "asc"])
sortBy(rs, d, field, order) ==
  sort(rs, d, [kind |-> "sortBy", field |-> field, order |-> order])

\* Array.prototype.slice(start, end), negative indexes counting from the end.
Clip(i, len) == IF i < 0 THEN (IF len + i < 0 THEN 0 ELSE len + i)
                ELSE (IF i > len THEN len ELSE i)
Slice(s, start, end) == SubSeq(s, Clip(start, Len(s)) + 1, Clip(end, Len(s)))
limitRepeating(d, count) == Slice(d \o d, 0, count)
limit(d, count) == Slice(d, 0, count)
skipDeferred(d, count) == d
skip(d, count) == Slice(d, count, Len(d))

\* JSON.stringify(item): the properties in insertion order; a property whose
\* value is undefined is left out, NaN is written as null.
Stringify(o) ==
  LET kept == SelectSeq(o, LAMBDA e : e[2].t # "undefined")
  IN [i \in 1..Len(kept) |->
        <<kept[i][1], IF IsNaN(kept[i][2]) THEN Null ELSE kept[i][2]>>]
RECURSIVE DistinctFrom(_, _, _)
DistinctFrom(rs, seen, rest) ==
  IF rest = <<>> THEN <<>>
  ELSE LET key == Stringify(rs[Head(rest)]) IN
       IF key \in seen THEN DistinctFrom(rs, seen, Tail(rest))
       ELSE <<Head(rest)>> \o DistinctFrom(rs, seen \cup {key}, Tail(rest))
distinct(rs, d) == DistinctFrom(rs, {}, d)

\* aggregate(field, operation)
Operations == {"sum", "avg", "min", "max", "count"}
RECURSIVE SumSeq(_)
SumSeq(vs) ==
  IF vs = <<>> THEN Num(0)
  ELSE LET a == vs[1]
           b == SumSeq(Tail(vs))
       IN IF IsNaN(a) \/ IsNaN(b) THEN NaN
          ELSE Frac(a.n * b.d + b.n * a.d, a.d * b.d)
NumericValuesCoerced(rs, d, field) ==
  LET vals == [i \in 1..Len(d) |-> ToNumber(Get(rs[d[i]], field))]
  IN SelectSeq(vals, LAMBDA v : ~IsNaN(v))
NumericValues(rs, d, field) ==
  LET vals == [i \in 1..Len(d) |-> Get(rs[d[i]], field)]
  IN SelectSeq(vals, LAMBDA v : v.t = "number")
aggregateUnguarded(rs, d, field, operation) ==
  LET values == NumericValues(rs, d, field)
  IN CASE operation = "sum" -> SumSeq(values)
       [] operation = "count" -> Num(Len(values))
       [] OTHER -> NaN
aggregate(rs, d, field, operation) ==
  LET values == NumericValues(rs, d, field)
      total == SumSeq(values)
      anyNaN == \E i \in 1..Len(values) : IsNaN(values[i])
  IN IF Len(values) = 0 THEN Num(0)
     ELSE CASE operation = "sum" -> total
            [] operation = "avg" ->
                 IF IsNaN(total) THEN NaN
                 ELSE Frac(total.n, total.d * Len(values))
            [] operation = "min" ->
                 IF anyNaN THEN NaN
                 ELSE values[CHOOSE i \in 1..Len(values) :
                        \A j \in 1..Len(values) : NumCmp(values[i], values[j]) <= 0]
            [] operation = "max" ->
                 IF anyNaN THEN NaN
                 ELSE values[CHOOSE i \in 1..Len(values) :
                        \A j \in 1..Len(values) : NumCmp(values[i], values[j]) >= 0]
            [] operation = "count" -> Num(Len(values))
            [] OTHER -> Num(0)

\* multiAggregate(config): config is an object field -> operation; the result
\* an object "<field>_<operation>" -> number, in the order of the entries.
\* An entry whose operation is undefined (written "" here) is passed over.
multiAggregateByField(rs, d, config) ==
  [i \in 1..Len(config) |-> <<config[i][1], aggregate(rs, d, config[i][1], config[i][2])>>]
RECURSIVE multiAggregate(_, _, _)
multiAggregate(rs, d, config) ==
  IF config = <<>> THEN <<>>
  ELSE LET field == config[Len(config)][1]
           operation == config[Len(config)][2]
           result == multiAggregate(rs, d, SubSeq(config, 1, Len(config) - 1))
       IN IF operation = "" THEN result
          ELSE SetKey(result, field \o "_" \o operation,
                      aggregate(rs, d, field, operation))

\* String(value), for the values of the model (no other number reaches it)
NumberToString(v) ==
  CASE IsNaN(v) -> "NaN"
    [] v.n = 0 -> "0"
    [] v.n = 1 /\ v.d = 1 -> "1"
    [] v.n = 2 /\ v.d = 1 -> "2"
    [] v.n = 10 /\ v.d = 1 -> "10"
    [] v.n = 20 /\ v.d = 1 -> "20"
    [] OTHER -> "?"
String(v) ==
  CASE v.t = "number" -> NumberToString(v)
    [] v.t = "string" -> v.s
    [] v.t = "boolean" -> IF v.b THEN "true" ELSE "false"
    [] v.t = "null" -> "null"
    [] OTHER -> "undefined"

\* The members every object literal inherits from Object.prototype: reading
\* groups[key] for one of these names finds the inherited member.
ObjectPrototype ==
  {"constructor", "toString", "toLocaleString", "valueOf", "hasOwnProperty",
   "isPrototypeOf", "propertyIsEnumerable", "__proto__"}

\* groupBy(field): this.data.reduce(...) from {}.  groups is the object's own
\* properties, key -> sequence of records.  When key names an inherited
\* member, !groups[key] is false and groups[key].push is not a function.
RECURSIVE GroupFrom(_, _, _, _)
GroupFrom(rs, groups, rest, field) ==
  IF rest = <<>> THEN Ret(groups)
  ELSE LET item == Head(rest)
           key == String(Get(rs[item], field))
       IN IF key \notin DOMAIN groups /\ key \in ObjectPrototype
          THEN Throw(TypeError)
          ELSE GroupFrom(rs,
                 [k \in DOMAIN groups \cup {key} |->
                    IF k \notin DOMAIN groups THEN <<item>>
                    ELSE IF k = key THEN Append(groups[k], item)
                    ELSE groups[k]],
                 Tail(rest), field)
groupByBackwards(rs, d, field) == GroupFrom(rs, <<>>, Reverse(d), field)
groupBy(rs, d, field) == GroupFrom(rs, <<>>, d, field)

\* ------------------------------------------------------------ engine state
VARIABLES
  recs,      \* record heap: record identity -> object
  arr,       \* array heap: array identity -> sequence of record identities
  data,      \* DataAnalyzer.data: the array the engine holds
  newData,   \* the caller's array last passed to reset ({} before any reset)
  got,       \* the array last returned by getResults ({} before any call)
  result,    \* the AnalysisResult last returned by analyze (<<>> before any)
  op,        \* the call made last
  calls      \* calls made so far

engineVars == <<recs, arr, data, newData, got, result, op, calls>>

\* ------------------------------------------------------------ source state
VARIABLES
  reader,    \* the class of the record source under test
  fileState, \* "ok", "missing" (no file at filePath), "malformed" (the bytes
             \* do not parse), "notArray" (JSON whose top level is no array)
  items,     \* the records the file at filePath was written from, in order
  call,      \* the public method called last, with its argument
  ret,       \* how that call ended: a returned value or a thrown error
  filePath,  \* DataSource.filePath: the origin string, as its characters
  fileType,  \* DataSource.fileType
  loads      \* the load() calls in progress on the source: where each is, the
             \* array its read() built and how it ended

sourceVars == <<reader, fileState, items, call, ret, filePath, fileType, loads>>

\* ------------------------------------------------------------- query state
VARIABLES
  last       \* the query made last on the working set: the call with its
             \* arguments, the working set before it, and how it ended

queryVars == <<last>>
vars == <<engineVars, sourceVars, queryVars>>

\* The record objects the caller's collections are made of.
InitRec(i) ==
  CASE (i - 1) % 4 = 0 -> <<(<<"category", Str("A")>>), (<<"price", Num(10)>>)>>
    [] (i - 1) % 4 = 1 -> <<(<<"category", Str("B")>>), (<<"price", Num(20)>>)>>
    [] (i - 1) % 4 = 2 -> <<(<<"price", Num(10)>>), (<<"category", Str("A")>>)>>
    [] OTHER -> <<(<<"category", Str("constructor")>>), (<<"price", Str("20")>>)>>

ResultArr(res) == {res[i].data : i \in 1..Len(res)}
Live(d, g, res, nd) == {OrigId, d} \cup g \cup nd \cup ResultArr(res)
\* The arrays the caller holds: the original, and whatever the engine returned.
CallerHeld == {OrigId} \cup got \cup newData \cup ResultArr(result)
\* The arrays the caller goes on to change: those it exchanged with the
\* engine after construction.
Exchanged == got \cup newData \cup ResultArr(result)

\* What a holder of array a sees: the records' contents, in order.
View(h, rs, a) == [i \in 1..Len(h[a]) |-> rs[h[a][i]]]
WorkingSet == View(arr, recs, data)

EngineInit ==
  \E s \in SeqsUpTo(RecId, MaxLen) :
    LET h0 == [i \in ArrId |-> IF i = OrigId THEN s ELSE <<>>]
        c == constructor(h0, {OrigId}, OrigId)
    IN /\ recs = [i \in RecId |-> InitRec(i)]
       /\ arr = c.heap
       /\ data = c.ref
       /\ newData = {}
       /\ got = {}
       /\ result = <<>>
       /\ op = "new"
       /\ calls = 0

\* One call: the heap h and the references after it.
Step(name, h, d, g, res, nd) ==
  /\ calls < MaxCalls
  /\ calls' = calls + 1
  /\ op' = name
  /\ arr' = Collect(h, Live(d, g, res, nd))
  /\ data' = d
  /\ got' = g
  /\ result' = res
  /\ newData' = nd
  /\ UNCHANGED <<sourceVars, queryVars>>

\* this.data = <a new array>
Assign(name, s) ==
  LET id == Fresh(Live(data, got, result, newData))
  IN Step(name, [arr EXCEPT ![id] = s], id, got, result, newData) /\ UNCHANGED recs
\* this.data.sort(...): the array is rewritten in place
InPlace(name, s) ==
  Step(name, [arr EXCEPT ![data] = s], data, got, result, newData) /\ UNCHANGED recs

FilterArgs == {<<"category", Str("A")>>, <<"price", Num(10)>>, <<"price", Str("20")>>}
RangeArgs == {<<10, 15>>, <<15, 25>>, <<20, 10>>}
Orders == {"asc", "desc"}
Counts == (-1)..MaxLen
Configs == {<<>>, <<(<<"price", "sum">>)>>,
            <<(<<"price", "avg">>), (<<"category", "count">>)>>}

Filter == \E p \in Predicates : Assign("filter", filter(recs, arr[data], p))
FilterBy == \E a \in FilterArgs : Assign("filterBy", filterBy(recs, arr[data], a[1], a[2]))
FilterByRange ==
  \E a \in RangeArgs :
    Assign("filterByRange", filterByRange(recs, arr[data], "price", Num(a[1]), Num(a[2])))
Sort == InPlace("sort", sort(recs, arr[data], [kind |-> "custom", field |-> "price"]))
SortBy ==
  \E f \in Fields, o \in Orders : InPlace("sortBy", sortBy(recs, arr[data], f, o))
Limit == \E n \in Counts : Assign("limit", limit(arr[data], n))
Skip == \E n \in Counts : Assign("skip", skip(arr[data], n))
Distinct == Assign("distinct", distinct(recs, arr[data]))

GetResults ==
  LET r == getResults(arr, Live(data, got, result, newData), data)
  IN Step("getResults", r.heap, data, {r.ref}, result, newData) /\ UNCHANGED recs

\* analyze(aggregateConfig?): useConfig says whether a config is passed.
analyzeWithoutAggregates(h, used, rs, d, useConfig, config) ==
  LET r == getResults(h, used, d)
  IN [heap |-> r.heap,
      value |-> [data |-> r.ref, total |-> Len(h[d]), aggregates |-> Undefined]]
analyze(h, used, rs, d, useConfig, config) ==
  LET r == getResults(h, used, d)
  IN [heap |-> r.heap,
      value |-> [data |-> r.ref,
                 total |-> Len(h[d]),
                 aggregates |-> IF useConfig THEN Obj(multiAggregate(rs, h[d], config))
                                ELSE Undefined]]
Analyze ==
  \E useConfig \in BOOLEAN, config \in Configs :
    /\ useConfig \/ config = <<>>
    /\ LET r == analyze(arr, Live(data, got, result, newData), recs, data,
                        useConfig, config)
       IN Step("analyze", r.heap, data, got, <<r.value>>, newData)
    /\ UNCHANGED recs

Reset ==
  \E nd \in CallerHeld :
    LET r == reset(arr, Live(data, got, result, {nd}), nd)
    IN Step("reset", r.heap, r.ref, got, result, {nd}) /\ UNCHANGED recs

\* The caller changes an array it holds, or a record in one.
CallerPush ==
  \E a \in Exchanged, r \in RecId :
    /\ Len(arr[a]) < MaxLen
    /\ Step("callerPush", [arr EXCEPT ![a] = Append(@, r)], data, got, result, newData)
    /\ UNCHANGED recs
CallerPop ==
  \E a \in Exchanged :
    /\ arr[a] # <<>>
    /\ Step("callerPop", [arr EXCEPT ![a] = SubSeq(@, 1, Len(@) - 1)],
            data, got, result, newData)
    /\ UNCHANGED recs
CallerReverse ==
  \E a \in Exchanged :
    /\ Len(arr[a]) > 1
    /\ Step("callerReverse",
            [arr EXCEPT ![a] = [i \in 1..Len(@) |-> @[Len(@) + 1 - i]]],
            data, got, result, newData)
    /\ UNCHANGED recs
FieldWrites == {<<"price", NaN>>, <<"category", Str("B")>>}
CallerSetField ==
  \E a \in Exchanged, w \in FieldWrites :
    \E i \in 1..Len(arr[a]) :
      /\ recs' = [recs EXCEPT ![arr[a][i]] = SetKey(@, w[1], w[2])]
      /\ recs' # recs
      /\ Step("callerSetField", arr, data, got, result, newData)

ChainOps == {"filter", "filterBy", "filterByRange", "sort", "sortBy",
             "limit", "skip", "distinct"}
EngineOps == ChainOps \cup {"getResults", "analyze", "reset"}
CallerSeqOps == {"callerPush", "callerPop", "callerReverse"}
CallerOps == CallerSeqOps \cup {"callerSetField"}

EngineNext ==
  \/ Filter \/ FilterBy \/ FilterByRange \/ Sort \/ SortBy
  \/ Limit \/ Skip \/ Distinct \/ GetResults \/ Analyze \/ Reset
  \/ CallerPush \/ CallerPop \/ CallerReverse \/ CallerSetField

\* No record source is in play while the engine is exercised.
SourceIdle ==
  /\ reader = "none"
  /\ fileState = "ok"
  /\ items = <<>>
  /\ call = [method |-> "none"]
  /\ ret = [kind |-> "none"]
  /\ filePath = <<>>
  /\ fileType = "unknown"
  /\ loads = <<>>
\* No query is logged while the engine's aliasing is exercised.
QueryIdle == last = [call |-> [name |-> "none"]]

Init == EngineInit /\ SourceIdle /\ QueryIdle
Next == EngineNext
Spec == Init /\ [][Next]_vars

\* ------------------------------------------------- query specification
\* The working set through a chain of queries, each call logged with its
\* arguments, the working set it found and how it ended.  Only the working
\* set is followed here; which array holds it is the engine specification's
\* subject.
Rows ==
  <<(<<(<<"category", Str("A")>>), (<<"price", Num(10)>>)>>),
    (<<(<<"category", Str("B")>>), (<<"price", Num(20)>>)>>),
    (<<(<<"category", Str("A")>>), (<<"price", Num(20)>>)>>),
    (<<(<<"category", Str("constructor")>>), (<<"price", Str("20")>>)>>),
    (<<(<<"category", Str("toString")>>)>>),
    (<<(<<"price", Num(10)>>), (<<"category", Str("A")>>)>>)>>
RowId == 1..Len(Rows)

\* The collections handed to the constructor: up to MaxRows different records.
Collections ==
  {s \in SeqsUpTo(RowId, MaxRows) : \A i, j \in 1..Len(s) : i # j => s[i] # s[j]}

QueryInit ==
  \E s \in Collections :
    LET h0 == [i \in ArrId |-> IF i = OrigId THEN s ELSE <<>>]
        c == constructor(h0, {OrigId}, OrigId)
    IN /\ recs = [i \in RowId |-> Rows[i]]
       /\ arr = c.heap
       /\ data = c.ref
       /\ newData = {}
       /\ got = {}
       /\ result = <<>>
       /\ op = "new"
       /\ calls = 0
       /\ last = [call |-> [name |-> "new"]]
       /\ SourceIdle

\* `return this`
This == [t |-> "analyzer"]
\* One query: c the call, s the working set it leaves, out how it ended.
Query(c, s, out) ==
  /\ calls < MaxCalls
  /\ calls' = calls + 1
  /\ op' = c.name
  /\ arr' = [arr EXCEPT ![data] = s]
  /\ last' = [call |-> c, before |-> arr[data], out |-> out]
  /\ UNCHANGED <<recs, data, newData, got, result>>
  /\ UNCHANGED sourceVars

QueryFilterArgs == FilterArgs \cup {<<"price", Num(20)>>, <<"category", Str("B")>>}
QueryRangeArgs == RangeArgs \cup {<<10, 20>>}
QueryCounts == {-1, 0, 1, MaxRows + 1}

FilterQuery ==
  \E p \in Predicates :
    Query([name |-> "filter", predicate |-> p], filter(recs, arr[data], p), Ret(This))
FilterByQuery ==
  \E a \in QueryFilterArgs :
    Query([name |-> "filterBy", field |-> a[1], value |-> a[2]],
          filterBy(recs, arr[data], a[1], a[2]), Ret(This))
FilterByRangeQuery ==
  \E a \in QueryRangeArgs :
    Query([name |-> "filterByRange", field |-> "price", min |-> Num(a[1]), max |-> Num(a[2])],
          filterByRange(recs, arr[data], "price", Num(a[1]), Num(a[2])), Ret(This))
SortByQuery ==
  \E f \in Fields, o \in Orders :
    Query([name |-> "sortBy", field |-> f, order |-> o],
          sortBy(recs, arr[data], f, o), Ret(This))
GroupByQuery ==
  \E f \in Fields :
    Query([name |-> "groupBy", field |-> f], arr[data], groupBy(recs, arr[data], f))
LimitQuery ==
  \E n \in QueryCounts :
    Query([name |-> "limit", count |-> n], limit(arr[data], n), Ret(This))
SkipQuery ==
  \E n \in QueryCounts :
    Query([name |-> "skip", count |-> n], skip(arr[data], n), Ret(This))

DistinctQuery == Query([name |-> "distinct"], distinct(recs, arr[data]), Ret(This))
\* getResults(): the caller receives the records of the copy, in its order.
GetResultsQuery ==
  LET r == getResults(arr, {OrigId, data}, data)
  IN Query([name |-> "getResults"], arr[data], Ret(r.heap[r.ref]))

QueryNext ==
  \/ FilterQuery \/ FilterByQuery \/ FilterByRangeQuery \/ SortByQuery
  \/ GroupByQuery \/ LimitQuery \/ SkipQuery \/ DistinctQuery \/ GetResultsQuery
QuerySpec == QueryInit /\ [][QueryNext]_vars

\* --------------------------------------------- reduction specification
\* The calls that reduce the working set to a value and leave it as it is:
\* aggregate, multiAggregate and analyze, on every collection.
ReductionConfigs ==
  {<<>>,
   <<(<<"price", "sum">>)>>,
   <<(<<"price", "avg">>), (<<"category", "count">>)>>,
   <<(<<"category", "max">>), (<<"price", "">>), (<<"quantity", "min">>)>>}
AggregateQuery ==
  \E f \in Fields, o \in Operations :
    Query([name |-> "aggregate", field |-> f, operation |-> o], arr[data],
          Ret(aggregate(recs, arr[data], f, o)))
MultiAggregateQuery ==
  \E config \in ReductionConfigs :
    Query([name |-> "multiAggregate", config |-> config], arr[data],
          Ret(multiAggregate(recs, arr[data], config)))
\* analyze(aggregateConfig?): the caller receives the result, its data being
\* the records of the copy getResults() made.
AnalyzeQuery ==
  \E useConfig \in BOOLEAN, config \in ReductionConfigs :
    /\ useConfig \/ config = <<>>
    /\ LET r == analyze(arr, {OrigId, data}, recs, data, useConfig, config)
       IN Query([name |-> "analyze", useConfig |-> useConfig, config |-> config],
                arr[data],
                Ret([data |-> r.heap[r.value.data],
                     summary |-> [total |-> r.value.total],
                     aggregates |-> r.value.aggregates]))

ReductionNext == AggregateQuery \/ MultiAggregateQuery \/ AnalyzeQuery
ReductionSpec == QueryInit /\ [][ReductionNext]_vars

\* ----------------------------------------------------------- engine claims
OrigView == View(arr, recs, OrigId)

\* C1: no call of filter, filterBy, filterByRange, sort, sortBy, limit, skip
\* or distinct changes the collection the caller handed to the constructor:
\* it keeps its length, its records and their order.
C1_OriginalUnchanged == [][op' \in ChainOps => OrigView' = OrigView]_vars
\* An in-place sort has reordered the working set and the original has not
\* followed it.
C1_Witness ==
  /\ op \in {"sort", "sortBy"}
  /\ calls = 1
  /\ Len(arr[OrigId]) = 2
  /\ arr[data] # arr[OrigId]

\* C2 (as claimed): once reset(newData) has been called, no change the caller
\* makes to newData (appending, removing, reordering, or writing a field of
\* one of its records) changes the working set getResults() shows, and no
\* engine call changes newData.
NewDataView == [a \in newData |-> View(arr, recs, a)]
C2_ResetIsolation ==
  [][(newData # {} /\ newData' = newData) =>
       /\ (op' \in CallerOps /\ NewDataView' # NewDataView => WorkingSet' = WorkingSet)
       /\ (op' \in EngineOps => NewDataView' = NewDataView)]_vars

\* C3: an AnalysisResult returned by analyze() and a collection returned by
\* getResults() are not changed by any later engine call (reset included):
\* the result's data, summary.total and aggregates stay as they were; and a
\* change the caller makes to a returned sequence (push, pop, reorder) does
\* not change the engine's working set.
ResultView ==
  [i \in 1..Len(result) |->
     [data |-> View(arr, recs, result[i].data),
      total |-> result[i].total,
      aggregates |-> result[i].aggregates]]
GotView == [a \in got |-> View(arr, recs, a)]
C3_ResultsImmutable ==
  [][/\ (op' \in EngineOps \ {"analyze"} => ResultView' = ResultView)
     /\ (op' \in EngineOps \ {"getResults"} => GotView' = GotView)
     /\ (op' \in CallerSeqOps => WorkingSet' = WorkingSet)]_vars
\* After analyze(), an in-place sort has reordered the working set, and the
\* result still lists the records in the order it was given.
C3_Witness ==
  /\ result # <<>>
  /\ op \in {"sort", "sortBy"}
  /\ arr[data] # arr[result[1].data]

\* ================================================================ sources
\* Values of any type (data: unknown): the primitives above, objects, arrays.
Arr(a) == [t |-> "array", a |-> a]
IsArray(v) == v.t = "array"
\* `k in v` raises a TypeError unless v is an object or an array.
CanIn(v) == v.t \in {"object", "array"}
In(k, v) == v.t = "object" /\ HasKey(v.o, k)
\* v[k] raises a TypeError when v is null or undefined.
CanProp(v) == v.t \notin {"null", "undefined"}
Prop(v, k) == IF v.t = "object" THEN Get(v.o, k) ELSE Undefined
Truthy(v) ==
  CASE v.t = "number" -> IsFinite(v) /\ v.n # 0
    [] v.t = "string" -> v.s # ""
    [] v.t = "boolean" -> v.b
    [] v.t \in {"null", "undefined"} -> FALSE
    [] OTHER -> TRUE

\* fs.readFile / fs.readFileSync on a path that holds no file
FsError == [name |-> "Error", code |-> "ENOENT"]
\* JSON.parse / XMLParser.parse on bytes that do not parse
ParseError == [name |-> "SyntaxError"]
\* new Error(`<prefix>: ${error}`): a plain Error whose message is the prefix
\* followed by the text of the failure it wraps.
WrapError(prefix, cause) == [name |-> "Error", message |-> prefix, cause |-> cause]
\* new Error("data format validation failed") (DataSource.load; the source
\* text is Chinese): a plain Error with this fixed message and nothing else.
ValidationFailed == [name |-> "Error", message |-> "data format validation failed"]

\* ------------------------------------------------- shapes (types/index.ts)
SaleFields == <<"id", "product", "category", "price", "quantity", "date">>
SaleTypes == [id |-> "number", product |-> "string", category |-> "string",
              price |-> "number", quantity |-> "number", date |-> "string"]
UserFields == <<"id", "name", "age", "email", "role", "active">>
UserTypes == [id |-> "number", name |-> "string", age |-> "number",
              email |-> "string", role |-> "string", active |-> "boolean"]

\* ---------------------------------------------------------- validators
\* helpers.ts isSale / isUser
isSale(obj) ==
  /\ TypeOf(obj) = "object"
  /\ obj # Null
  /\ In("id", obj)
  /\ In("product", obj)
  /\ In("price", obj)
isUser(obj) ==
  /\ TypeOf(obj) = "object"
  /\ obj # Null
  /\ In("id", obj)
  /\ In("name", obj)
  /\ In("email", obj)

\* CsvReader.isSale
CsvReader_isSale(obj) ==
  /\ TypeOf(obj) = "object"
  /\ obj # Null
  /\ In("id", obj) /\ TypeOf(Prop(obj, "id")) = "number"
  /\ In("product", obj) /\ TypeOf(Prop(obj, "product")) = "string"
  /\ In("category", obj) /\ TypeOf(Prop(obj, "category")) = "string"
  /\ In("price", obj) /\ TypeOf(Prop(obj, "price")) = "number"
  /\ In("quantity", obj) /\ TypeOf(Prop(obj, "quantity")) = "number"
  /\ In("date", obj) /\ TypeOf(Prop(obj, "date")) = "string"
\* XmlReader.isSale
XmlReader_isSale(obj) ==
  /\ TypeOf(obj) = "object"
  /\ obj # Null
  /\ In("id", obj) /\ TypeOf(Prop(obj, "id")) = "number"
  /\ In("product", obj) /\ TypeOf(Prop(obj, "product")) = "string"
  /\ In("category", obj) /\ TypeOf(Prop(obj, "category")) = "string"
  /\ In("price", obj) /\ TypeOf(Prop(obj, "price")) = "number"
  /\ In("quantity", obj) /\ TypeOf(Prop(obj, "quantity")) = "number"
  /\ In("date", obj) /\ TypeOf(Prop(obj, "date")) = "string"

\* JsonReader.isUser: requiredFields.every(field => field in obj && typeof
\* obj[field] === types[field]); `in` is applied to obj unguarded.
RECURSIVE EveryField(_, _)
EveryField(obj, fields) ==
  IF fields = <<>> THEN Ret(Bool(TRUE))
  ELSE IF ~CanIn(obj) THEN Throw(TypeError)
  ELSE IF In(Head(fields), obj)
          /\ TypeOf(Prop(obj, Head(fields))) = UserTypes[Head(fields)]
       THEN EveryField(obj, Tail(fields))
       ELSE Ret(Bool(FALSE))
JsonReader_isUser(obj) == EveryField(obj, UserFields)

\* CsvReader.validate / XmlReader.validate
CsvReader_validateSome(d) ==
  IF ~IsArray(d) THEN Ret(Bool(FALSE))
  ELSE IF Len(d.a) = 0 THEN Ret(Bool(TRUE))
  ELSE Ret(Bool(\E i \in 1..Len(d.a) : CsvReader_isSale(d.a[i])))
CsvReader_validate(d) ==
  IF ~IsArray(d) THEN Ret(Bool(FALSE))
  ELSE IF Len(d.a) = 0 THEN Ret(Bool(TRUE))
  ELSE Ret(Bool(\A i \in 1..Len(d.a) : CsvReader_isSale(d.a[i])))
XmlReader_validate(d) ==
  IF ~IsArray(d) THEN Ret(Bool(FALSE))
  ELSE IF Len(d.a) = 0 THEN Ret(Bool(TRUE))
  ELSE Ret(Bool(\A i \in 1..Len(d.a) : XmlReader_isSale(d.a[i])))

\* JsonReader.validate: data.every(item => this.isUser(item)) stops at the
\* first item that is no User, and raises what isUser raises.
RECURSIVE EveryUser(_)
EveryUser(xs) ==
  IF xs = <<>> THEN Ret(Bool(TRUE))
  ELSE LET r == JsonReader_isUser(Head(xs)) IN
       IF r.kind = "throw" THEN r
       ELSE IF r.value.b THEN EveryUser(Tail(xs))
       ELSE Ret(Bool(FALSE))
JsonReader_validate(d) ==
  IF ~IsArray(d) THEN Ret(Bool(FALSE))
  ELSE IF Len(d.a) = 0 THEN Ret(Bool(TRUE))
  ELSE EveryUser(d.a)

\* GenericJsonReader.validate: this.validator(data), the validator being the
\* caller's; here (data) => Array.isArray(data) && data.every(isUser).
GenericJsonReader_validate(d) ==
  Ret(Bool(IsArray(d) /\ \A i \in 1..Len(d.a) : isUser(d.a[i])))

Readers == {"CsvReader", "XmlReader", "JsonReader", "GenericJsonReader"}
validate(rd, d) ==
  CASE rd = "CsvReader" -> CsvReader_validate(d)
    [] rd = "XmlReader" -> XmlReader_validate(d)
    [] rd = "JsonReader" -> JsonReader_validate(d)
    [] OTHER -> GenericJsonReader_validate(d)

\* ------------------------------------------------------------------ files
\* The records a file is written from.  A Sale / User with every field, and
\* records that miss a field or hold one of the wrong type.
Sale(id, product, category, price, quantity, date) ==
  Obj(<<(<<"id", id>>), (<<"product", product>>), (<<"category", category>>),
        (<<"price", price>>), (<<"quantity", quantity>>), (<<"date", date>>)>>)
User(id, name, age, email, role, active) ==
  Obj(<<(<<"id", id>>), (<<"name", name>>), (<<"age", age>>),
        (<<"email", email>>), (<<"role", role>>), (<<"active", active>>)>>)
Without(v, k) == Obj(SelectSeq(v.o, LAMBDA e : e[1] # k))
With(v, k, x) == Obj(SetKey(v.o, k, x))

S1 == Sale(Num(1), Str("A"), Str("A"), Num(10), Num(1), Str("B"))
S2 == Sale(Num(2), Str("B"), Str("B"), Num(20), Num(2), Str("B"))
U1 == User(Num(1), Str("A"), Num(20), Str("B"), Str("A"), Bool(TRUE))
U2 == User(Num(2), Str("B"), Num(10), Str("A"), Str("B"), Bool(FALSE))

GoodSales == {S1, S2}
GoodUsers == {U1, U2}
CsvItems == GoodSales \cup {Without(S1, "date"), Without(S1, "price"),
                            With(S1, "price", Str("x"))}
XmlItems == GoodSales \cup {Without(S1, "date"), Without(S1, "price"),
                            With(S1, "product", Num(1)), Str("A")}
JsonItems == GoodUsers \cup {Without(U1, "email"), With(U1, "id", Str("1")),
                             Null, Num(1)}
ItemPool(rd) ==
  CASE rd = "CsvReader" -> CsvItems
    [] rd = "XmlReader" -> XmlItems
    [] OTHER -> JsonItems
GoodItems(rd) == IF rd \in {"CsvReader", "XmlReader"} THEN GoodSales ELSE GoodUsers
FileStates(rd) ==
  CASE rd = "CsvReader" -> {"ok", "missing"}
    [] rd = "XmlReader" -> {"ok", "missing", "malformed"}
    [] OTHER -> {"ok", "missing", "malformed", "notArray"}

\* The text of a CSV file, as its lines and their comma-separated cells: a
\* header line, then one line per record; a missing last field leaves the
\* line short, a missing inner field leaves its cell empty.
Numeral(n) ==
  CASE n = 1 -> "1"
    [] n = 2 -> "2"
    [] n = 10 -> "10"
    [] OTHER -> " 20"
CellOf(v) == IF v.t = "number" THEN Numeral(v.n) ELSE v.s
RECURSIVE RowOf(_, _)
RowOf(item, fields) ==
  IF fields = <<>> THEN <<>>
  ELSE LET f == fields[Len(fields)]
           before == RowOf(item, SubSeq(fields, 1, Len(fields) - 1))
       IN IF In(f, item) THEN Append(before, CellOf(Prop(item, f)))
          ELSE IF f = "date" THEN before
          ELSE Append(before, "")
CsvLines(its) == <<SaleFields>> \o [i \in 1..Len(its) |-> RowOf(its[i], SaleFields)]

\* What XMLParser.parse gives for <sales> with one <sale> element per
\* record: no element leaves sales an empty text, one element is the object
\* itself, several are an array.
XmlTree(its) ==
  CASE Len(its) = 0 -> Obj(<<(<<"sales", Str("")>>)>>)
    [] Len(its) = 1 -> Obj(<<(<<"sales", Obj(<<(<<"sale", its[1]>>)>>)>>)>>)
    [] OTHER -> Obj(<<(<<"sales", Obj(<<(<<"sale", Arr(its)>>)>>)>>)>>)

\* What JSON.parse gives: the array of the records, or (notArray) an object
\* that holds it.
JsonValue(st, its) ==
  IF st = "notArray" THEN Obj(<<(<<"users", Arr(its)>>)>>) ELSE Arr(its)

\* ----------------------------------------------------------------- readers
\* String.prototype.trim on the cells of the model.
Trim(s) == IF s = " 20" THEN "20" ELSE s
RECURSIVE Join(_, _)
Join(cells, sep) ==
  IF Len(cells) = 0 THEN ""
  ELSE IF Len(cells) = 1 THEN cells[1]
  ELSE cells[1] \o sep \o Join(Tail(cells), sep)
\* lines[i].split(delimiter).map(v => v.trim()), the file being comma-separated
Split(line, delimiter) ==
  IF delimiter = "," THEN [i \in 1..Len(line) |-> Trim(line[i])]
  ELSE <<Trim(Join(line, ","))>>
\* values[k]: undefined past the end
ValueAt(values, k) == IF k <= Len(values) THEN Str(values[k]) ELSE Undefined
\* The loop body of CsvReader.read
SaleOfValues(values) ==
  Sale(ToNumber(ValueAt(values, 1)), ValueAt(values, 2), ValueAt(values, 3),
       ToNumber(ValueAt(values, 4)), ToNumber(ValueAt(values, 5)), ValueAt(values, 6))
\* for (let i = 1; i < lines.length; i++) data.push(sale)
ParseCsvFromHeader(lines, delimiter) ==
  Arr([i \in 1..Len(lines) |-> SaleOfValues(Split(lines[i], delimiter))])
ParseCsv(lines, delimiter) ==
  Arr([i \in 1..(Len(lines) - 1) |-> SaleOfValues(Split(lines[i + 1], delimiter))])

CsvReader_read(st, its) ==
  IF st = "missing" THEN Throw(WrapError("CSV read failed", FsError))
  ELSE Ret(ParseCsv(CsvLines(its), ","))
CsvReader_readWithDelimiter(st, its, delimiter) ==
  IF st = "missing" THEN Throw(FsError)
  ELSE Ret(ParseCsv(CsvLines(its), delimiter))

XmlReader_read(st, its) ==
  CASE st = "missing" -> Throw(WrapError("XML parse failed", FsError))
    [] st = "malformed" -> Throw(WrapError("XML parse failed", ParseError))
    [] OTHER ->
         LET jsonObj == XmlTree(its)
             sales == Prop(jsonObj, "sales")
             sale == Prop(sales, "sale")
         IN IF Truthy(jsonObj) /\ Truthy(sales) /\ Truthy(sale)
            THEN LET salesArray == IF IsArray(sale) THEN sale.a ELSE <<sale>>
                 IN Ret(Arr(SelectSeq(salesArray, XmlReader_isSale)))
            ELSE Ret(Arr(<<>>))

JsonReader_read(st, its) ==
  CASE st = "missing" -> Throw(WrapError("JSON read failed", FsError))
    [] st = "malformed" -> Throw(WrapError("JSON read failed", ParseError))
    [] OTHER -> Ret(JsonValue(st, its))
GenericJsonReader_read(st, its) ==
  CASE st = "missing" -> Throw(FsError)
    [] st = "malformed" -> Throw(ParseError)
    [] OTHER -> Ret(JsonValue(st, its))

\* users.filter(callback): a TypeError when users is no array, or when the
\* callback reads a property of null.
Keeps(user, field, wanted) ==
  IF field = "active" THEN Truthy(Prop(user, "active"))
  ELSE StrictEq(Prop(user, field), wanted)
FilterUsers(r, field, wanted) ==
  IF r.kind = "throw" THEN r
  ELSE IF ~IsArray(r.value) THEN Throw(TypeError)
  ELSE IF \E i \in 1..Len(r.value.a) : ~CanProp(r.value.a[i]) THEN Throw(TypeError)
  ELSE Ret(Arr(SelectSeq(r.value.a, LAMBDA user : Keeps(user, field, wanted))))
JsonReader_readActive(st, its) ==
  FilterUsers(JsonReader_read(st, its), "active", Bool(TRUE))
JsonReader_readByRole(st, its, role) ==
  FilterUsers(JsonReader_read(st, its), "role", Str(role))

read(rd, st, its) ==
  CASE rd = "CsvReader" -> CsvReader_read(st, its)
    [] rd = "XmlReader" -> XmlReader_read(st, its)
    [] rd = "JsonReader" -> JsonReader_read(st, its)
    [] OTHER -> GenericJsonReader_read(st, its)

\* DataSource.load: what it calls, in order, and how it ends.  The catch
\* block logs and rethrows the error it caught.
loadUnchecked(rd, st, its) ==
  [trace |-> <<"read">>, out |-> read(rd, st, its)]
load(rd, st, its) ==
  LET d == read(rd, st, its) IN
  IF d.kind = "throw" THEN [trace |-> <<"read">>, out |-> d]
  ELSE LET v == validate(rd, d.value) IN
       [trace |-> <<"read", "validate">>,
        out |-> IF v.kind = "throw" THEN v
                ELSE IF ~v.value.b THEN Throw(ValidationFailed)
                ELSE Ret(d.value)]

\* ------------------------------------------------------ file type detection
\* enum FileType
FileType == [CSV |-> "csv", JSON |-> "json", XML |-> "xml", UNKNOWN |-> "unknown"]
\* The origins of the model, as their characters.
Chars(path) ==
  CASE path = "a.csv" -> <<"a", ".", "c", "s", "v">>
    [] path = "a.json" -> <<"a", ".", "j", "s", "o", "n">>
    [] path = "a.xml" -> <<"a", ".", "x", "m", "l">>
    [] path = "a.CSV" -> <<"a", ".", "C", "S", "V">>
    [] path = "a.txt" -> <<"a", ".", "t", "x", "t">>
    [] path = "a" -> <<"a">>
    [] OTHER -> <<"c", "s", "v">>
Paths == {Chars(p) : p \in {"a.csv", "a.json", "a.xml", "a.CSV", "a.txt", "a", "csv"}}
\* path.split('.').pop(): the characters after the last '.', the whole
\* string when it holds none.
RECURSIVE LastSegment(_)
LastSegment(path) ==
  IF \A i \in 1..Len(path) : path[i] # "." THEN path
  ELSE LastSegment(Tail(path))
\* String.prototype.toLowerCase
LowerChar(c) ==
  CASE c = "C" -> "c"
    [] c = "S" -> "s"
    [] c = "V" -> "v"
    [] OTHER -> c
toLowerCase(str) == [i \in 1..Len(str) |-> LowerChar(str[i])]
\* helpers.ts detectFileType
detectFileType(path) ==
  LET extension == toLowerCase(LastSegment(path))
  IN CASE extension = <<"c", "s", "v">> -> FileType.CSV
       [] extension = <<"j", "s", "o", "n">> -> FileType.JSON
       [] extension = <<"x", "m", "l">> -> FileType.XML
       [] OTHER -> FileType.UNKNOWN
\* DataSource.detectFileType (private): it knows csv and json only
DataSource_detectFileType(path) ==
  LET extension == toLowerCase(LastSegment(path))
  IN CASE extension = <<"c", "s", "v">> -> FileType.CSV
       [] extension = <<"j", "s", "o", "n">> -> FileType.JSON
       [] OTHER -> FileType.UNKNOWN
\* The constructors: DataSource sets fileType from the path; XmlReader then
\* overwrites it with FileType.XML; the other readers leave it.
DataSource_constructor(rd, path) ==
  IF rd = "XmlReader" THEN FileType.XML ELSE DataSource_detectFileType(path)
\* getFileInfo(): { path: this.filePath, type: this.fileType }
getFileInfo(path, type) == [path |-> path, type |-> type]

\* ------------------------------------------------- source specification
\* No engine is in play while a record source is exercised.
EngineIdle ==
  /\ recs = [i \in RecId |-> InitRec(i)]
  /\ arr = [i \in ArrId |-> <<>>]
  /\ data = OrigId
  /\ newData = {}
  /\ got = {}
  /\ result = <<>>
  /\ op = "none"
  /\ calls = 0

SourceInit ==
  /\ reader \in Readers
  /\ fileState \in FileStates(reader)
  /\ items \in IF fileState \in {"missing", "malformed"} THEN {<<>>}
               ELSE SeqsUpTo(ItemPool(reader), MaxItems)
  /\ call = [method |-> "new"]
  /\ ret = [kind |-> "none"]
  /\ filePath \in Paths
  /\ fileType = DataSource_constructor(reader, filePath)
  /\ loads = <<>>
  /\ EngineIdle
  /\ QueryIdle

\* One public call on the source: what was called and how it ended.
SourceCall(c, r) ==
  /\ call' = c
  /\ ret' = r
  /\ UNCHANGED <<reader, fileState, items, filePath, fileType, loads>>
  /\ UNCHANGED <<engineVars, queryVars>>

Load ==
  LET l == load(reader, fileState, items)
  IN SourceCall([method |-> "load", trace |-> l.trace], l.out)
Read == SourceCall([method |-> "read"], read(reader, fileState, items))
ReadActive ==
  /\ reader = "JsonReader"
  /\ SourceCall([method |-> "readActive"], JsonReader_readActive(fileState, items))
Roles == {"A", "B"}
ReadByRole ==
  /\ reader = "JsonReader"
  /\ \E role \in Roles :
       SourceCall([method |-> "readByRole", role |-> role],
                  JsonReader_readByRole(fileState, items, role))
Delimiters == {",", ";"}
ReadWithDelimiter ==
  /\ reader = "CsvReader"
  /\ \E delimiter \in Delimiters :
       SourceCall([method |-> "readWithDelimiter", delimiter |-> delimiter],
                  CsvReader_readWithDelimiter(fileState, items, delimiter))

\* getFileInfo(), the call recording which call it came after
GetFileInfo ==
  /\ call.method # "getFileInfo"
  /\ SourceCall([method |-> "getFileInfo", after |-> call.method],
                Ret(getFileInfo(filePath, fileType)))
\* helpers.ts detectFileType(filePath), on the source's path
DetectFileType ==
  SourceCall([method |-> "detectFileType"], Ret(detectFileType(filePath)))

SourceNext ==
  \/ Load \/ Read \/ ReadActive \/ ReadByRole \/ ReadWithDelimiter
  \/ GetFileInfo \/ DetectFileType
SourceSpec == SourceInit /\ [][SourceNext]_vars

\* ---------------------------------------------- validator specification
\* The validators are pure: Init draws the value, each action applies one.
Primitives == {Null, Num(1), Str("A"), Bool(TRUE)}
Objects == CsvItems \cup (XmlItems \ {Str("A")}) \cup (JsonItems \ {Null, Num(1)})
             \cup {Obj(<<>>), With(S1, "id", Str("1"))}
Elements == {S1, U1, Without(S1, "price"), Without(U1, "email"), Null, Num(1)}
Unknowns == Primitives \cup Objects \cup {Arr(s) : s \in SeqsUpTo(Elements, MaxItems)}

ValidatorInit ==
  /\ call \in {[method |-> "input", arg |-> v] : v \in Unknowns}
  /\ ret = [kind |-> "none"]
  /\ reader = "none"
  /\ fileState = "ok"
  /\ items = <<>>
  /\ filePath = <<>>
  /\ fileType = "unknown"
  /\ loads = <<>>
  /\ EngineIdle
  /\ QueryIdle

Apply(name, r) ==
  /\ call' = [method |-> name, arg |-> call.arg]
  /\ ret' = r
  /\ UNCHANGED <<reader, fileState, items, filePath, fileType, loads>>
  /\ UNCHANGED <<engineVars, queryVars>>

HelperIsSale == Apply("isSale", Ret(Bool(isSale(call.arg))))
HelperIsUser == Apply("isUser", Ret(Bool(isUser(call.arg))))
CsvIsSale == Apply("CsvReader.isSale", Ret(Bool(CsvReader_isSale(call.arg))))
XmlIsSale == Apply("XmlReader.isSale", Ret(Bool(XmlReader_isSale(call.arg))))
JsonIsUser == Apply("JsonReader.isUser", JsonReader_isUser(call.arg))
CsvValidate == Apply("CsvReader.validate", CsvReader_validate(call.arg))
XmlValidate == Apply("XmlReader.validate", XmlReader_validate(call.arg))
JsonValidate == Apply("JsonReader.validate", JsonReader_validate(call.arg))

SalePredicates == {"isSale", "CsvReader.isSale", "XmlReader.isSale"}
UserPredicates == {"isUser", "JsonReader.isUser"}
CollectionValidators == {"CsvReader.validate", "XmlReader.validate", "JsonReader.validate"}

ValidatorNext ==
  \/ HelperIsSale \/ HelperIsUser \/ CsvIsSale \/ XmlIsSale \/ JsonIsUser
  \/ CsvValidate \/ XmlValidate \/ JsonValidate
ValidatorSpec == ValidatorInit /\ [][ValidatorNext]_vars

\* ------------------------------------------------------------ source claims
Shape(rd) == IF rd \in {"CsvReader", "XmlReader"} THEN "Sale" ELSE "User"
ReadOutcome == read(reader, fileState, items)
\* An error that names the shape and the number of records that were checked.
NamesShapeAndCount(e, shape, d) ==
  /\ "shape" \in DOMAIN e /\ e.shape = shape
  /\ IsArray(d) => ("count" \in DOMAIN e /\ e.count = Len(d.a))

\* C4 (as claimed): load() calls read(), then validate() on what read()
\* returned; when validate returns false it fails with a ValidationError that
\* names the shape and the record count attempted; when validate returns true
\* it returns exactly the collection read() produced.
C4_LoadValidationError ==
  (call.method = "load" /\ ReadOutcome.kind = "return") =>
    /\ call.trace = <<"read", "validate">>
    /\ validate(reader, ReadOutcome.value) = Ret(Bool(FALSE)) =>
         /\ ret.kind = "throw"
         /\ NamesShapeAndCount(ret.error, Shape(reader), ReadOutcome.value)
    /\ validate(reader, ReadOutcome.value) = Ret(Bool(TRUE)) =>
         ret = Ret(ReadOutcome.value)
\* C4 (amended): load() calls read(), then validate() on what read()
\* returned; when validate returns false it fails with a plain Error whose
\* message is the fixed text "data format validation failed", naming neither
\* the shape nor a record count; when validate returns true it returns
\* exactly the collection read() produced.
C4_LoadTemplate ==
  (call.method = "load" /\ ReadOutcome.kind = "return") =>
    /\ call.trace = <<"read", "validate">>
    /\ validate(reader, ReadOutcome.value) = Ret(Bool(FALSE)) =>
         ret = Throw([name |-> "Error", message |-> "data format validation failed"])
    /\ validate(reader, ReadOutcome.value) = Ret(Bool(TRUE)) =>
         ret = Ret(ReadOutcome.value)
\* load() has read two records, validate() has refused them, load() has thrown.
C4_Witness ==
  /\ call.method = "load"
  /\ ReadOutcome.kind = "return"
  /\ IsArray(ReadOutcome.value) /\ Len(ReadOutcome.value.a) = 2
  /\ validate(reader, ReadOutcome.value) = Ret(Bool(FALSE))
  /\ ret.kind = "throw"

\* C5 (as claimed): every collection a public operation of a record source
\* (load, read, readActive, readByRole, readWithDelimiter) returns to its
\* caller passes validate() for the source's shape.
PublicReads == {"load", "read", "readActive", "readByRole", "readWithDelimiter"}
C5_NoUnvalidatedEscape ==
  (call.method \in PublicReads /\ ret.kind = "return") =>
    validate(reader, ret.value) = Ret(Bool(TRUE))

\* C6 (as claimed): when any record of the file misses a required field,
\* load() raises the validation error and returns nothing, in particular not
\* the records that did conform.
RequiredFields(rd) == IF Shape(rd) = "Sale" THEN SaleFields ELSE UserFields
MissesField(item, rd) ==
  /\ item.t = "object"
  /\ \E i \in 1..Len(RequiredFields(rd)) : ~HasKey(item.o, RequiredFields(rd)[i])
C6_LoadFailure ==
  (/\ call.method = "load"
   /\ fileState = "ok"
   /\ \E i \in 1..Len(items) : MissesField(items[i], reader)) =>
    ret = Throw(ValidationFailed)

\* C7: for a well-formed CSV, JSON or XML file of N records, load() returns
\* exactly those N records, in the order of the file, and they pass validate().
WellFormed == fileState = "ok" /\ \A i \in 1..Len(items) : items[i] \in GoodItems(reader)
C7_LoadRoundTrip ==
  (/\ call.method = "load"
   /\ reader \in {"CsvReader", "JsonReader", "XmlReader"}
   /\ WellFormed) =>
    /\ ret = Ret(Arr(items))
    /\ validate(reader, ret.value) = Ret(Bool(TRUE))
\* A CSV file of two different records has been loaded.
C7_Witness ==
  /\ call.method = "load"
  /\ reader = "CsvReader"
  /\ fileState = "ok"
  /\ items = <<S2, S1>>
  /\ ret.kind = "return"

\* C8 (as claimed): when the file cannot be read or parsed, read() fails with
\* an error that wraps that failure, and load() fails with the very error
\* read() raised (no retry, no collection returned).
Failure == IF fileState = "missing" THEN FsError ELSE ParseError
C8_ReadErrorWrapped ==
  fileState \in {"missing", "malformed"} =>
    /\ call.method = "read" =>
         /\ ret.kind = "throw"
         /\ "cause" \in DOMAIN ret.error
         /\ ret.error.cause = Failure
    /\ call.method = "load" => ret = ReadOutcome /\ ret.kind = "throw"

\* --------------------------------------------------------- validator claims
\* A record with every field of the shape, each of its declared type.
Conforms(v, fields, types) ==
  /\ v.t = "object"
  /\ \A i \in 1..Len(fields) :
       HasKey(v.o, fields[i]) /\ TypeOf(Get(v.o, fields[i])) = types[fields[i]]

\* C9 (as claimed): each shape predicate (Sale, User) returns true for every
\* complete record of its shape and false for every record that misses a
\* required field or holds one of the wrong runtime type.
C9_ValidationSoundness ==
  /\ (call.method \in SalePredicates /\ call.arg.t = "object") =>
       ret = Ret(Bool(Conforms(call.arg, SaleFields, SaleTypes)))
  /\ (call.method \in UserPredicates /\ call.arg.t = "object") =>
       ret = Ret(Bool(Conforms(call.arg, UserFields, UserTypes)))

\* C10 (as claimed): the record and collection validators never raise: for
\* null, a primitive, or a sequence holding null or a primitive they return
\* false.
Mismatch(method, v) ==
  IF method \in CollectionValidators
  THEN ~IsArray(v) \/ \E i \in 1..Len(v.a) : v.a[i].t # "object"
  ELSE v.t # "object"
C10_ValidatorsNeverRaise ==
  call.method \in SalePredicates \cup UserPredicates \cup CollectionValidators =>
    /\ ret.kind = "return"
    /\ Mismatch(call.method, call.arg) => ret = Ret(Bool(FALSE))

\* C11: a collection-level validate(data) returns false for every value that
\* is no sequence, returns true for the empty sequence, and for a sequence
\* that is not empty returns true exactly when every element satisfies the
\* record-level predicate of its reader.
Satisfies(method, e) ==
  CASE method = "CsvReader.validate" -> CsvReader_isSale(e)
    [] method = "XmlReader.validate" -> XmlReader_isSale(e)
    [] OTHER -> JsonReader_isUser(e) = Ret(Bool(TRUE))
C11_CollectionValidate ==
  call.method \in CollectionValidators =>
    /\ ~IsArray(call.arg) => ret = Ret(Bool(FALSE))
    /\ (IsArray(call.arg) /\ Len(call.arg.a) = 0) => ret = Ret(Bool(TRUE))
    /\ (IsArray(call.arg) /\ Len(call.arg.a) > 0) =>
         (ret = Ret(Bool(TRUE)) <=>
            \A i \in 1..Len(call.arg.a) : Satisfies(call.method, call.arg.a[i]))
\* CsvReader.validate has refused a sequence whose first record is a Sale and
\* whose second is not.
C11_Witness ==
  /\ call.method = "CsvReader.validate"
  /\ call.arg = Arr(<<S1, Without(S1, "price")>>)
  /\ ret = Ret(Bool(FALSE))

\* ------------------------------------------------------- file type claims
\* The kind the extension of an origin stands for: the characters after its
\* last '.', none when it holds no '.'.
EndsWith(str, suffix) ==
  /\ Len(str) >= Len(suffix)
  /\ SubSeq(str, Len(str) - Len(suffix) + 1, Len(str)) = suffix
KindOfOrigin(path) ==
  LET lower == toLowerCase(path)
  IN CASE EndsWith(lower, <<".", "c", "s", "v">>) -> "csv"
       [] EndsWith(lower, <<".", "j", "s", "o", "n">>) -> "json"
       [] EndsWith(lower, <<".", "x", "m", "l">>) -> "xml"
       [] OTHER -> "unknown"

\* C12 (as claimed): shape kind detection maps an origin ending in .csv to
\* CSV, .json to JSON, .xml to XML and every other origin, one without an
\* extension included, to UNKNOWN; and the kind getFileInfo() reports is the
\* one computed from the origin at construction, whatever calls came before.
C12_FileKind ==
  /\ call.method = "detectFileType" => ret = Ret(KindOfOrigin(filePath))
  /\ call.method = "getFileInfo" =>
       ret = Ret([path |-> filePath, type |-> KindOfOrigin(filePath)])

\* ------------------------------------------------------------ query claims
Before == last.before
After == arr[data]
ValueOf(r, field) == Get(recs[r], field)
\* The subsequence of s at the positions K, in the order of s.
Subsequence(s, K) ==
  [j \in 1..Cardinality(K) |->
     s[CHOOSE i \in K : Cardinality({k \in K : k <= i}) = j]]

\* C13: filter(predicate) and filterBy(field, value) leave exactly the records
\* of the previous working set for which the predicate holds (whose field
\* strictly equals value), in their previous relative order.
C13_FilterExact ==
  /\ last.call.name = "filter" =>
       After = Subsequence(Before, {i \in 1..Len(Before) :
                                     Holds(last.call.predicate, recs[Before[i]])})
  /\ last.call.name = "filterBy" =>
       After = Subsequence(Before, {i \in 1..Len(Before) :
                 LET v == ValueOf(Before[i], last.call.field)
                 IN v = last.call.value /\ ~IsNaN(v)})
\* filterBy("category", "A") has dropped the middle record of three.
C13_Witness ==
  /\ last.call.name = "filterBy"
  /\ last.call.field = "category"
  /\ Len(Before) = 3
  /\ After = <<Before[1], Before[3]>>

\* C14: a filterBy call that repeats the filterBy call made just before it,
\* with the same field and value, leaves the working set as it found it.
C14_FilterIdempotent ==
  [][(/\ last.call.name = "filterBy"
      /\ last'.call = last.call
      /\ calls' = calls + 1) => arr'[data'] = arr[data]]_vars
\* The second call of a chain on categories A, B, A is filterBy("category",
\* "A"); it found the first and the third record, which only that same call
\* leaves of the three, and kept both.
C14_Witness ==
  /\ calls = 2
  /\ last.call = [name |-> "filterBy", field |-> "category", value |-> Str("A")]
  /\ arr[OrigId] = <<1, 2, 3>>
  /\ Before = <<1, 3>>
  /\ After = Before

\* C15: filterByRange(field, min, max) leaves exactly the records whose field
\* value v satisfies min <= v <= max, both bounds included, in their previous
\* relative order (<= being the comparison of the language: for a number the
\* numeric order, NaN satisfying nothing); when min > max it leaves none.
InRange(v, min, max) ==
  IF v.t = "number"
  THEN IsFinite(v) /\ NumCmp(min, v) <= 0 /\ NumCmp(v, max) <= 0
  ELSE LessEq(min, v) /\ LessEq(v, max)
C15_RangeInclusive ==
  last.call.name = "filterByRange" =>
    /\ After = Subsequence(Before, {i \in 1..Len(Before) :
                  InRange(ValueOf(Before[i], last.call.field),
                          last.call.min, last.call.max)})
    /\ NumCmp(last.call.min, last.call.max) > 0 => After = <<>>
\* filterByRange("price", 10, 20) has kept a record at each bound and dropped
\* one whose price is missing.
C15_Witness ==
  /\ last.call.name = "filterByRange"
  /\ last.call.min = Num(10) /\ last.call.max = Num(20)
  /\ Len(Before) = 3 /\ Len(After) = 2
  /\ ValueOf(After[1], "price") = Num(20)
  /\ ValueOf(After[2], "price") = Num(10)

\* The comparison sortBy(field, order) makes of two records: by number when
\* both values are numbers, by text when both are text, equal otherwise.
Comparator == [kind |-> "sortBy", field |-> last.call.field, order |-> last.call.order]
Rearrangements(n) == {f \in [1..n -> 1..n] : \A i, j \in 1..n : f[i] = f[j] => i = j}

\* C16 (as claimed): sortBy(field, order) is a stable sort: the working set
\* afterwards is a permutation of the previous one in which no record comes
\* before one it compares greater than (numbers by value, text by
\* lexicographic order, reversed for DESCENDING), and records that compare
\* equal, or are of mixed or unsupported types, keep their previous relative
\* order.
C16_StableSort ==
  last.call.name = "sortBy" =>
    \E f \in Rearrangements(Len(Before)) :
      /\ After = [k \in 1..Len(Before) |-> Before[f[k]]]
      /\ \A i, j \in 1..Len(After) :
           i < j =>
             LET order == Compare(Comparator, recs[After[i]], recs[After[j]])
             IN order <= 0 /\ (order = 0 => f[i] < f[j])

\* C17 (as claimed): sortBy(field, ASCENDING) followed by sortBy(field,
\* DESCENDING) reverses the order among records with distinct field values
\* (two numbers or two texts), and records sharing a field value end in the
\* relative order they had before both sorts.
Precedes(s, x, y) == \E i, j \in 1..Len(s) : i < j /\ s[i] = x /\ s[j] = y
C17_SortReversal ==
  [][(/\ last.call.name = "sortBy"
      /\ last.call.order = "asc"
      /\ last'.call = [last.call EXCEPT !.order = "desc"]
      /\ calls' = calls + 1) =>
       \A x, y \in {Before[i] : i \in 1..Len(Before)} :
         LET f == last.call.field IN
         /\ (/\ ValueOf(x, f) # ValueOf(y, f)
             /\ ValueOf(x, f).t = ValueOf(y, f).t
             /\ ValueOf(x, f).t \in {"number", "string"}
             /\ Precedes(arr[data], x, y)) =>
              Precedes(arr'[data'], y, x)
         /\ (x # y /\ ValueOf(x, f) = ValueOf(y, f) /\ Precedes(Before, x, y)) =>
              Precedes(arr'[data'], x, y)]_vars

\* C18 (as claimed): groupBy(field) returns groups in which every record of
\* the working set appears exactly once, whatever the field values are
\* (names such as "constructor" or "toString" included), and the groups'
\* sizes add up to the size of the working set.
RECURSIVE SumOfLens(_, _)
SumOfLens(groups, keys) ==
  IF keys = {} THEN 0
  ELSE LET k == CHOOSE x \in keys : TRUE
       IN Len(groups[k]) + SumOfLens(groups, keys \ {k})
Occurrences(groups, r) ==
  Cardinality({<<k, i>> \in UNION {{k} \X (1..Len(groups[k])) : k \in DOMAIN groups} :
                 groups[k][i] = r})
C18_GroupComplete ==
  last.call.name = "groupBy" =>
    /\ last.out.kind = "return"
    /\ \A i \in 1..Len(After) : Occurrences(last.out.value, After[i]) = 1
    /\ SumOfLens(last.out.value, DOMAIN last.out.value) = Len(After)

Least(a, b) == IF a < b THEN a ELSE b
C20_LimitSkip ==
  /\ last.call.name = "limit" =>
       /\ Len(After) <= (IF last.call.count < 0 THEN 0 ELSE last.call.count)
       /\ After = SubSeq(Before, 1, Least(last.call.count, Len(Before)))
  /\ last.call.name = "skip" =>
       After = SubSeq(Before, (IF last.call.count < 0 THEN 0 ELSE last.call.count) + 1,
                      Len(Before))

\* C21 (as claimed): distinct() leaves the first of every set of records
\* with the same field-by-field content, whatever the order in which their
\* fields were inserted, and removes the later ones; records that differ in
\* a field value are all kept.
SameContent(a, b) == {a[i] : i \in 1..Len(a)} = {b[i] : i \in 1..Len(b)}
C21_DistinctStructural ==
  last.call.name = "distinct" =>
    After = Subsequence(Before, {i \in 1..Len(Before) :
              \A j \in 1..(i - 1) : ~SameContent(recs[Before[j]], recs[Before[i]])})

\* The positions of the working set whose value of field f is a number, and
\* the total of those values (the numbers of the model are integers).
NumericAt(f) == {i \in 1..Len(Before) : ValueOf(Before[i], f).t = "number"}
RECURSIVE TotalAt(_, _)
TotalAt(K, f) ==
  IF K = {} THEN 0
  ELSE LET i == CHOOSE x \in K : TRUE
       IN ValueOf(Before[i], f).n + TotalAt(K \ {i}, f)

\* C22: aggregate(field, operation) is the reduction over exactly the values
\* of field that are numbers, the others left out: sum their total, avg the
\* total divided by their count, min and max their extremes, count their
\* number; and the call leaves the working set as it found it.
C22_AggregateReference ==
  last.call.name = "aggregate" =>
    LET f == last.call.field
        K == NumericAt(f)
        v == last.out.value
    IN /\ After = Before
       /\ last.out.kind = "return"
       /\ K # {} =>
            CASE last.call.operation = "sum" -> v = Num(TotalAt(K, f))
              [] last.call.operation = "avg" ->
                   IsFinite(v) /\ v.n * Cardinality(K) = TotalAt(K, f) * v.d
              [] last.call.operation = "min" ->
                   /\ \E i \in K : ValueOf(Before[i], f) = v
                   /\ \A i \in K : NumCmp(v, ValueOf(Before[i], f)) <= 0
              [] last.call.operation = "max" ->
                   /\ \E i \in K : ValueOf(Before[i], f) = v
                   /\ \A i \in K : NumCmp(v, ValueOf(Before[i], f)) >= 0
              [] OTHER -> v = Num(Cardinality(K))
\* aggregate("price", "sum") over the prices 10, "20" and 20 has given 30.
C22_Witness ==
  /\ last.call = [name |-> "aggregate", field |-> "price", operation |-> "sum"]
  /\ Before = <<1, 4, 2>>
  /\ last.out = Ret(Num(30))

\* C23: aggregate(field, operation) returns 0, whatever the operation, when
\* the working set is empty or holds no number for the field (avg does not
\* divide by zero).
C23_EmptyAggregate ==
  (last.call.name = "aggregate" /\ NumericAt(last.call.field) = {}) =>
    last.out = Ret(Num(0))
\* aggregate("price", "avg") over two records without a numeric price.
C23_Witness ==
  /\ last.call = [name |-> "aggregate", field |-> "price", operation |-> "avg"]
  /\ Before = <<4, 5>>
  /\ last.out = Ret(Num(0))

\* C24: multiAggregate(config) returns one entry per configured (field,
\* operation) pair, keyed "<field>_<operation>", whose value is
\* aggregate(field, operation) on the working set; it holds no other entry,
\* and its entries are in the order of the configuration's keys.
C24_MultiAggregate ==
  last.call.name = "multiAggregate" =>
    LET configured == SelectSeq(last.call.config, LAMBDA e : e[2] # "")
    IN /\ After = Before
       /\ last.out =
            Ret([i \in 1..Len(configured) |->
                   <<configured[i][1] \o "_" \o configured[i][2],
                     aggregate(recs, Before, configured[i][1], configured[i][2])>>])
\* multiAggregate({price: "avg", category: "count"}) over the prices 10, 20.
C24_Witness ==
  /\ last.call.name = "multiAggregate"
  /\ Before = <<1, 2>>
  /\ last.out = Ret(<<(<<"price_avg", Num(15)>>), (<<"category_count", Num(0)>>)>>)

\* C25: analyze(config?) does not change the working set; its result's data
\* is the working set, summary.total the length of that data, and aggregates
\* is present exactly when a config is given (then it is
\* multiAggregate(config)).
C25_AnalyzeSnapshot ==
  last.call.name = "analyze" =>
    LET res == last.out.value
    IN /\ After = Before
       /\ last.out.kind = "return"
       /\ res.data = Before
       /\ res.summary.total = Len(res.data)
       /\ (res.aggregates.t = "object") <=> last.call.useConfig
       /\ last.call.useConfig =>
            res.aggregates = Obj(multiAggregate(recs, Before, last.call.config))
\* analyze({price: "sum"}) over the prices 20, 10.
C25_Witness ==
  /\ last.call.name = "analyze"
  /\ last.call.useConfig
  /\ Before = <<2, 1>>
  /\ last.out.value.aggregates = Obj(<<(<<"price_sum", Num(30)>>)>>)

\* C27 (as claimed): no query or aggregation raises when the working set is
\* empty or holds a record with a field value of an unexpected type (a Sale's
\* category is a string and its price a number); each returns normally.
QueryNames ==
  {"filter", "filterBy", "filterByRange", "sortBy", "groupBy", "limit", "skip",
   "distinct", "aggregate", "multiAggregate", "analyze"}
Mistyped(r) ==
  \/ ValueOf(r, "category").t # "string"
  \/ ValueOf(r, "price").t # "number"
C27_NeverRaises ==
  (/\ last.call.name \in QueryNames
   /\ Before = <<>> \/ \E i \in 1..Len(Before) : Mistyped(Before[i]))
    => last.out.kind = "return"

CountIn(s, r) == Cardinality({i \in 1..Len(s) : s[i] = r})
SubMultiset(s, t) == \A r \in RecId : CountIn(s, r) <= CountIn(t, r)
C30_SubMultiset ==
  [][/\ newData = {} => SubMultiset(arr[data], arr[OrigId])
     /\ newData' = {} => SubMultiset(arr'[data'], arr'[OrigId])
     /\ op' \in ChainOps =>
          /\ SubMultiset(arr'[data'], arr[data])
          /\ Len(arr'[data']) <= Len(arr[data])
     /\ op' \in {"sort", "sortBy"} => SubMultiset(arr[data], arr'[data'])
     /\ op' = "reset" => \E nd \in newData' : arr'[data'] = arr[nd]
     /\ op' \in {"getResults", "analyze"} \cup CallerOps =>
          arr'[data'] = arr[data]]_vars
\* Two chained calls have left one of the two occurrences of a record that
\* the constructor was given.
C30_Witness ==
  /\ calls = 2
  /\ op \in ChainOps
  /\ newData = {}
  /\ arr[OrigId] = <<1, 1>>
  /\ arr[data] = <<1>>

\* ------------------------------------------------- the sales analysis
\* analyzeSalesData: a CsvReader loads the file, createAnalyzer wraps the
\* records, and the first example resets the analyzer to them, keeps one
\* category, sorts by price, descending, and analyzes.  op is the statement
\* executed last; last.chain lists the chained calls made since the reset.
S3 == Sale(Num(2), Str("B"), Str("A"), Num(20), Num(2), Str("B"))
ScenarioSales == {S1, S2, S3, With(S1, "price", Str("x"))}
ScenarioCategories == {"A", "B"}
ScenarioInit ==
  /\ reader = "CsvReader"
  /\ fileState \in FileStates(reader)
  /\ items \in IF fileState = "missing" THEN {<<>>}
               ELSE SeqsUpTo(ScenarioSales, MaxSales)
  /\ call = [method |-> "new"]
  /\ ret = [kind |-> "none"]
  /\ filePath = Chars("a.csv")
  /\ fileType = DataSource_constructor(reader, filePath)
  /\ loads = <<>>
  /\ recs = <<>>
  /\ arr = [i \in ArrId |-> <<>>]
  /\ data = OrigId
  /\ newData = {}
  /\ got = {}
  /\ result = <<>>
  /\ op = "new CsvReader"
  /\ calls = 0
  /\ last = [call |-> [name |-> "none"], chain |-> <<>>]

\* const sales = await reader.load()
ScenarioLoad ==
  /\ op = "new CsvReader"
  /\ op' = "load"
  /\ LET l == load(reader, fileState, items)
     IN call' = [method |-> "load", trace |-> l.trace] /\ ret' = l.out
  /\ UNCHANGED <<reader, fileState, items, filePath, fileType, loads>>
  /\ UNCHANGED <<recs, arr, data, newData, got, result, calls, last>>
\* const analyzer = createAnalyzer(sales): the records of sales become the
\* records 1..n of the heap, sales the caller's array.
ScenarioCreate ==
  /\ op = "load"
  /\ ret.kind = "return"
  /\ op' = "createAnalyzer"
  /\ LET sales == ret.value.a
         h0 == [i \in ArrId |-> IF i = OrigId THEN [k \in 1..Len(sales) |-> k]
                                ELSE <<>>]
         c == constructor(h0, {OrigId}, OrigId)
     IN /\ recs' = [k \in 1..Len(sales) |-> sales[k].o]
        /\ arr' = c.heap
        /\ data' = c.ref
  /\ UNCHANGED <<newData, got, result, calls, last, sourceVars>>
\* analyzer.reset(sales)
ScenarioReset ==
  /\ op = "createAnalyzer"
  /\ op' = "reset"
  /\ LET r == reset(arr, {OrigId, data}, OrigId)
     IN arr' = Collect(r.heap, {OrigId, r.ref}) /\ data' = r.ref
  /\ newData' = {OrigId}
  /\ last' = [call |-> [name |-> "reset"], chain |-> <<>>]
  /\ UNCHANGED <<recs, got, result, calls, sourceVars>>
\* One chained call of the example: c the call, s the working set it leaves.
ScenarioQuery(c, s, out) ==
  /\ op' = c.name
  /\ calls' = calls + 1
  /\ arr' = [arr EXCEPT ![data] = s]
  /\ last' = [call |-> c, before |-> arr[data], out |-> out,
              chain |-> Append(last.chain, c)]
  /\ UNCHANGED <<recs, data, newData, got, result, sourceVars>>
\* .filterBy('category', c)
ScenarioFilterBy ==
  /\ op = "reset"
  /\ \E c \in ScenarioCategories :
       ScenarioQuery([name |-> "filterBy", field |-> "category", value |-> Str(c)],
                     filterBy(recs, arr[data], "category", Str(c)), Ret(This))
\* .sortBy('price', SortOrder.DESC)
ScenarioSortBy ==
  /\ op = "filterBy"
  /\ ScenarioQuery([name |-> "sortBy", field |-> "price", order |-> "desc"],
                   sortBy(recs, arr[data], "price", "desc"), Ret(This))
\* .analyze({price: 'sum', quantity: 'sum'})
ScenarioConfig == <<(<<"price", "sum">>), (<<"quantity", "sum">>)>>
ScenarioAnalyze ==
  /\ op = "sortBy"
  /\ LET r == analyze(arr, {OrigId, data}, recs, data, TRUE, ScenarioConfig)
     IN ScenarioQuery([name |-> "analyze", useConfig |-> TRUE, config |-> ScenarioConfig],
                      arr[data],
                      Ret([data |-> r.heap[r.value.data],
                           summary |-> [total |-> r.value.total],
                           aggregates |-> r.value.aggregates]))
ScenarioNext ==
  \/ ScenarioLoad \/ ScenarioCreate \/ ScenarioReset
  \/ ScenarioFilterBy \/ ScenarioSortBy \/ ScenarioAnalyze
ScenarioSpec == ScenarioInit /\ [][ScenarioNext]_vars

\* C26 (as claimed): after Sale records are loaded, filterBy("category", c),
\* sortBy("price", descending) and analyze({price: "sum", ...}) give a result
\* whose data are the loaded records of category c, whose summary.total is
\* their number, whose aggregates.price_sum is the sum of their prices, and
\* whose data never lists a lower price before a higher one.
Loaded == ret.value.a
OfCategory(c) == {k \in 1..Len(Loaded) : Prop(Loaded[k], "category") = c}
PriceOf(k) == Prop(Loaded[k], "price")
RECURSIVE PriceSum(_)
PriceSum(K) ==
  IF K = {} THEN Num(0)
  ELSE LET k == CHOOSE x \in K : TRUE
           rest == PriceSum(K \ {k})
       IN IF IsNaN(PriceOf(k)) \/ IsNaN(rest) THEN NaN
          ELSE Num(PriceOf(k).n + rest.n)
C26_EndToEnd ==
  op = "analyze" =>
    LET K == OfCategory(last.chain[1].value)
        res == last.out.value
    IN /\ {res.data[i] : i \in 1..Len(res.data)} = K
       /\ Len(res.data) = Cardinality(K)
       /\ res.summary.total = Cardinality(K)
       /\ Get(res.aggregates.o, "price_sum") = PriceSum(K)
       /\ \A i, j \in 1..Len(res.data) :
            (i < j /\ IsFinite(PriceOf(res.data[i])) /\ IsFinite(PriceOf(res.data[j])))
              => NumCmp(PriceOf(res.data[i]), PriceOf(res.data[j])) >= 0

\* ------------------------------------------------- overlapping loads
\* Several load() calls on one source.  Each call suspends at the file read
\* of read() and again where load() awaits read(); what runs between two
\* suspensions runs without interruption.  recs holds the values the reads
\* parsed, arr the arrays they were pushed to, loads the calls.
LoadId == 1..MaxLoads
LoadItems(rd) == GoodItems(rd) \cup {Without(CHOOSE v \in GoodItems(rd) : TRUE, "id")}
NotCalled == [pc |-> "idle", ref |-> 0, out |-> [kind |-> "none"]]
LoadInit ==
  /\ reader \in Readers
  /\ fileState \in FileStates(reader)
  /\ items \in IF fileState = "ok" THEN SeqsUpTo(LoadItems(reader), MaxItems)
               ELSE {<<>>}
  /\ call = [method |-> "new"]
  /\ ret = [kind |-> "none"]
  /\ filePath = Chars("a.csv")
  /\ fileType = DataSource_constructor(reader, filePath)
  /\ loads = [k \in LoadId |-> NotCalled]
  /\ recs = <<>>
  /\ arr = [i \in ArrId |-> <<>>]
  /\ data = OrigId
  /\ newData = {}
  /\ got = {}
  /\ result = <<>>
  /\ op = "none"
  /\ calls = 0
  /\ QueryIdle

\* The arrays the calls so far have built.
Built == {loads[k].ref : k \in LoadId} \ {0}
\* const data: Sale[] = [] (JSON.parse, the filter of XmlReader.read): a new
\* array on every call.
dataArrayCached(used) == IF used = {} THEN Fresh(used) ELSE SetMin(used)
dataArray(used) == Fresh(used)
\* What the holder of call k's collection sees.
Collection(k) == [i \in 1..Len(arr[loads[k].ref]) |-> recs[arr[loads[k].ref][i]]]

LoadStep(k, c) ==
  /\ call' = [method |-> c, k |-> k]
  /\ UNCHANGED <<reader, fileState, items, filePath, fileType>>
  /\ UNCHANGED <<data, newData, got, result, op, last>>
\* load() is called: it logs, calls read(), which starts the file read.
\* (The calls are numbered in the order they are made.)
StartLoad(k) ==
  /\ loads[k].pc = "idle"
  /\ \A j \in 1..(k - 1) : loads[j].pc # "idle"
  /\ loads' = [loads EXCEPT ![k].pc = "reading"]
  /\ LoadStep(k, "load")
  /\ UNCHANGED <<recs, arr, ret, calls>>
\* The file read ends and read() runs to its end: it parses the text and
\* returns the array it built, or throws.
FinishRead(k) ==
  /\ loads[k].pc = "reading"
  /\ LET r == read(reader, fileState, items)
     IN IF r.kind = "return" /\ IsArray(r.value)
        THEN LET id == dataArray(Built)
                 n == Len(recs)
             IN /\ recs' = recs \o r.value.a
                /\ arr' = [arr EXCEPT ![id] = [i \in 1..Len(r.value.a) |-> n + i]]
                /\ loads' = [loads EXCEPT ![k] = [pc |-> "read", ref |-> id,
                                                  out |-> [kind |-> "return"]]]
        ELSE /\ loads' = [loads EXCEPT ![k] = [pc |-> "read", ref |-> 0, out |-> r]]
             /\ UNCHANGED <<recs, arr>>
  /\ LoadStep(k, "read")
  /\ UNCHANGED <<ret, calls>>
\* load() resumes with what read() gave: it validates and returns the array,
\* or rethrows.
FinishLoad(k) ==
  /\ loads[k].pc = "read"
  /\ LET d == IF loads[k].ref # 0 THEN Arr(Collection(k)) ELSE loads[k].out.value
         v == IF loads[k].out.kind = "throw" THEN loads[k].out ELSE validate(reader, d)
         out == IF v.kind = "throw" THEN v
                ELSE IF ~v.value.b THEN Throw(ValidationFailed)
                ELSE [kind |-> "return"]
     IN /\ loads' = [loads EXCEPT ![k].pc = "done", ![k].out = out]
        /\ ret' = out
  /\ LoadStep(k, "return")
  /\ UNCHANGED <<recs, arr, calls>>
\* The caller changes a collection a call returned to it: it removes the
\* last record (once per collection), or overwrites a field of the first
\* (MaxCalls changes in all).
Returned(k) == loads[k].pc = "done" /\ loads[k].out.kind = "return"
CallerChange(k, c) ==
  /\ calls < MaxCalls
  /\ calls' = calls + 1
  /\ LoadStep(k, c)
CallerRemove(k) ==
  /\ Returned(k)
  /\ arr[loads[k].ref] # <<>>
  /\ Len(arr[loads[k].ref]) = Len(items)
  /\ arr' = [arr EXCEPT ![loads[k].ref] = SubSeq(@, 1, Len(@) - 1)]
  /\ CallerChange(k, "callerPop")
  /\ UNCHANGED <<recs, loads, ret>>
CallerWrite(k) ==
  /\ Returned(k)
  /\ arr[loads[k].ref] # <<>>
  /\ recs' = [recs EXCEPT ![arr[loads[k].ref][1]] = With(@, "id", Num(0))]
  /\ recs' # recs
  /\ CallerChange(k, "callerSetField")
  /\ UNCHANGED <<arr, loads, ret>>
LoadNext ==
  \E k \in LoadId :
    \/ StartLoad(k) \/ FinishRead(k) \/ FinishLoad(k)
    \/ CallerRemove(k) \/ CallerWrite(k)
LoadSpec == LoadInit /\ [][LoadNext]_vars

\* C29: load() calls on one source, one after the other or overlapping at
\* the file read, do not interfere.  No step leaves the source's origin or
\* shape kind changed; a step of one call, or a change the caller makes to
\* one call's collection, leaves every other call's collection as it was;
\* and each call that returns, returns an array no other call built, holding
\* records no other call holds, with exactly what load() gives for the file.
HasCollection(k) == loads[k].ref # 0
C29_Reentrant ==
  [][/\ filePath' = filePath
     /\ fileType' = fileType
     /\ \A k \in LoadId :
          (HasCollection(k) /\ k # call'.k) =>
            (loads'[k] = loads[k] /\ Collection(k)' = Collection(k))
     /\ \A k \in LoadId :
          (loads[k].pc = "read" /\ loads'[k].pc = "done") =>
            LET expected == load(reader, fileState, items).out
            IN IF expected.kind = "throw" THEN loads'[k].out = expected
               ELSE /\ loads'[k].out.kind = "return"
                    /\ Arr(Collection(k)') = expected.value
                    /\ \A j \in LoadId \ {k} :
                         HasCollection(j) =>
                           /\ loads'[j].ref # loads'[k].ref
                           /\ \A a \in 1..Len(arr'[loads'[j].ref]),
                                 b \in 1..Len(arr'[loads'[k].ref]) :
                                arr'[loads'[j].ref][a] # arr'[loads'[k].ref][b]]_vars
\* Two calls overlapped at the file read; the caller has changed what the
\* first returned, and the second has returned the two records of the file.
C29_Witness ==
  /\ reader = "CsvReader"
  /\ call = [method |-> "return", k |-> 2]
  /\ Returned(1) /\ Returned(2)
  /\ Len(arr[loads[1].ref]) = 1
  /\ Len(arr[loads[2].ref]) = 2
  /\ Collection(2) = items

====
